---- MODULE Spec2Model ----
(***************************************************************************)
(* Model of the ProductARViewer component (src/app/welcome/welcome.tsx and *)
(* its sibling src/unnamed/part_000): capability detection, customization  *)
(* parsing, model load, the fit check effect, the AR session handlers and   *)
(* the capture of the current frame.                                       *)
(*                                                                         *)
(* Numbers.  A JavaScript number is the record [nan, v]: NaN, or the exact *)
(* fixed-point value v.  Lengths are counted in 0.1 mm (1 m = 10000), the  *)
(* unscaled model extents in cm, scales in tenths (1.0 = 10), so that      *)
(*   extent[cm] * |scale|[1/10] * scale[1/10]  is a length in 0.1 mm.      *)
(* Arithmetic on these values is exact; IEEE-754 rounding below 0.1 mm is  *)
(* not represented.                                                        *)
(***************************************************************************)
EXTENDS Integers, Sequences, FiniteSets, TLC

VARIABLES
    \* ---- environment (fixed for one page load)
    impl,              \* which of the two components is mounted
    userAgent,         \* navigator.userAgent, by device class
    hasVibrate,        \* 'vibrate' in navigator
    xr,                \* navigator.xr: absent, or how isSessionSupported settles
    urlParams,         \* window.location.search, as optional key values
    modelSize,         \* unscaled bounding box of the loaded model, in cm
    toBlobFates,       \* whether a toBlob() promise of this viewer settles: the fates it can meet
    \* ---- React state (useState)
    isMobile, isIOS, webXRSupported, showConfirmation, customizations,
    arStatus, captureEnabled, showMeasurements, dimensions, fitCheckResult,
    isModelLoaded, captureStatus,
    \* ---- captures in flight
    nextCapture,       \* captures started so far, plus one
    exporting,         \* the captures suspended on await modelViewer.toBlob()
    timers,            \* the pending setTimeout(..., 2000) callbacks, in firing order
    objectUrls,        \* the object URLs created and not revoked, by capture
    captureStatusBy,   \* the capture whose setCaptureStatus left the message shown (0: none)
    downloads,         \* the link.click() calls made so far
    \* ---- the iOS model URL
    customUSDZUrl,     \* useState('') and what the USDZ effect stores, as path and query
    usdzEffectPending, \* isIOS or customizations changed; the USDZ effect has not run yet
    \* ---- refs and scheduling
    modelViewerRef,    \* modelViewerRef.current is set
    scriptLoaded,      \* the model-viewer script is in the document
    initPending,       \* initialize() is suspended on supportsWebXR()
    fitEffectPending,  \* dimensions changed; the fit check effect has not run yet
    \* ---- observation
    lastOp,            \* the handler that ran last, with its argument
    out,               \* the side effects the last handler issued, in order
    \* ---- observers used by single specifications
    prev,              \* the session fields as they were before the last handler ran
    seqPos,            \* progress through the session-started/placed/not-presenting sequence
    memo,              \* what an observer remembers of an earlier run
    history            \* the handlers of this run with the state each left, in order

envVars == <<impl, userAgent, hasVibrate, xr, urlParams, modelSize, toBlobFates>>
reactVars == <<isMobile, isIOS, webXRSupported, showConfirmation, customizations,
               arStatus, captureEnabled, showMeasurements, dimensions,
               fitCheckResult, isModelLoaded>>
schedVars == <<modelViewerRef, scriptLoaded, initPending, fitEffectPending>>
captureVars == <<captureStatus, nextCapture, exporting, timers, objectUrls, captureStatusBy,
                 downloads>>
usdzVars == <<customUSDZUrl, usdzEffectPending>>
obsVars == <<prev, seqPos, memo, history>>
vars == <<envVars, reactVars, schedVars, captureVars, usdzVars, lastOp, out, obsVars>>

----------------------------------------------------------------------------
(* JavaScript values *)

NaN == [nan |-> TRUE, v |-> 0]
Num(x) == [nan |-> FALSE, v |-> x]

Abs(x) == IF x < 0 THEN -x ELSE x

\* a <= b on numbers: false as soon as one side is NaN
JsLeq(a, b) == ~a.nan /\ ~b.nan /\ a.v <= b.v
\* a > b
JsGt(a, b) == ~a.nan /\ ~b.nan /\ a.v > b.v
\* a !== b
JsNeq(a, b) == a.nan \/ b.nan \/ a.v # b.v
\* Math.max(a, b): NaN as soon as one argument is NaN
JsMax(a, b) == IF a.nan \/ b.nan THEN NaN ELSE IF a.v >= b.v THEN a ELSE b

\* null | T as a sequence of length at most one
Null == << >>
Some(x) == <<x>>

\* An optional URL parameter: URLSearchParams.get returns null or a string.
\* The scale value is kept as its characters (it is parsed); the others are
\* passed through and kept as strings.
Absent == [present |-> FALSE, value |-> ""]
Given(str) == [present |-> TRUE, value |-> str]
AbsentChars == [present |-> FALSE, value |-> << >>]
GivenChars(chars) == [present |-> TRUE, value |-> chars]
\* x || dflt on string | null: null and the empty string are falsy
OrDefault(p, dflt) == IF p.present /\ p.value # "" THEN p.value ELSE dflt
OrDefaultChars(p, dflt) == IF p.present /\ p.value # << >> THEN p.value ELSE dflt

----------------------------------------------------------------------------
(* parseFloat and parseUrlParams *)

DigitValue(c) ==
    CASE c = "0" -> 0 [] c = "1" -> 1 [] c = "2" -> 2 [] c = "3" -> 3
      [] c = "4" -> 4 [] c = "5" -> 5 [] c = "6" -> 6 [] c = "7" -> 7
      [] c = "8" -> 8 [] c = "9" -> 9
IsDigit(c) == c \in {"0", "1", "2", "3", "4", "5", "6", "7", "8", "9"}

\* first index >= i of s that holds no white space
RECURSIVE SkipSpace(_, _)
SkipSpace(s, i) == IF i <= Len(s) /\ s[i] = " " THEN SkipSpace(s, i + 1) ELSE i
\* first index >= i of s that holds no digit
RECURSIVE DigitRun(_, _)
DigitRun(s, i) == IF i <= Len(s) /\ IsDigit(s[i]) THEN DigitRun(s, i + 1) ELSE i
\* the decimal value of the digits s[i..j-1]
RECURSIVE DigitsValue(_, _, _)
DigitsValue(s, i, j) ==
    IF j <= i THEN 0 ELSE DigitsValue(s, i, j - 1) * 10 + DigitValue(s[j - 1])

\* parseFloat(s), in tenths: leading white space and one sign are skipped, the
\* longest prefix of the form digits[.digits] is converted and what follows it
\* is ignored; NaN when that prefix holds no digit.  Fractional digits after
\* the first are below the model's resolution (the inputs drawn carry at most
\* one); exponents and "Infinity" are not drawn.
parseFloat(s) ==
    LET start == SkipSpace(s, 1)
        signed == start <= Len(s) /\ s[start] \in {"+", "-"}
        sign == IF signed /\ s[start] = "-" THEN -1 ELSE 1
        i0 == IF signed THEN start + 1 ELSE start
        i1 == DigitRun(s, i0)
        hasDot == i1 <= Len(s) /\ s[i1] = "."
        f0 == i1 + 1
        f1 == IF hasDot THEN DigitRun(s, f0) ELSE f0
        tenths == IF f1 > f0 THEN DigitValue(s[f0]) ELSE 0
    IN  IF i1 = i0 /\ f1 = f0
        THEN NaN
        ELSE Num(sign * (DigitsValue(s, i0, i1) * 10 + tenths))

\* the same with ?? in place of ||: an empty value is kept
parseUrlParamsEmptyKept(params) ==
    [color    |-> IF params.color.present THEN params.color.value ELSE "#FFFFFF",
     scale    |-> parseFloat(IF params.scale.present THEN params.scale.value
                             ELSE <<"1", ".", "0">>),
     pattern  |-> IF params.pattern.present THEN params.pattern.value ELSE "solid",
     material |-> IF params.material.present THEN params.material.value ELSE "default"]

parseUrlParams(params) ==
    [color    |-> OrDefault(params.color, "#FFFFFF"),
     scale    |-> parseFloat(OrDefaultChars(params.scale, <<"1", ".", "0">>)),
     pattern  |-> OrDefault(params.pattern, "solid"),
     material |-> OrDefault(params.material, "default")]

\* A URL as its path and its query: no query, or the color and scale hints
NoUrl == [path |-> "", query |-> Null]
Url(path, query) == [path |-> path, query |-> query]

\* useState initial value of customizations
DefaultCustomization ==
    [color |-> "#FFFFFF", scale |-> Num(10), pattern |-> "solid", material |-> "default"]

----------------------------------------------------------------------------
(* Device and capability detection *)

\* /Mobi|Android|iPhone|iPad|iPod/i.test(navigator.userAgent)
isMobileDevice(ua) == ua \in {"android", "iphone"}
\* /iPad|iPhone|iPod/.test(navigator.userAgent)
isIOSDevice(ua) == ua = "iphone"
\* the same with a device without navigator.xr taken to support AR
supportsWebXRWhenAbsent(x) ==
    CASE x = "absent" -> TRUE
      [] x = "supported" -> TRUE
      [] x = "unsupported" -> FALSE
      [] x = "rejects" -> FALSE

\* supportsWebXR(): false without navigator.xr and when the query rejects
supportsWebXR(x) ==
    CASE x = "absent" -> FALSE
      [] x = "supported" -> TRUE
      [] x = "unsupported" -> FALSE
      [] x = "rejects" -> FALSE

----------------------------------------------------------------------------
(* Fit check *)

\* The assumed room, in 0.1 mm
estimatedRoomWidth == 40000
estimatedRoomHeight == 28000
estimatedRoomDepth == 50000

RECURSIVE Gcd(_, _)
Gcd(a, b) == IF b = 0 THEN a ELSE Gcd(b, a % b)
Lcm(a, b) == (a \div Gcd(a, b)) * b
\* Usage percentages are kept on one common denominator: the value
\* (x / room) * 100 is represented by the integer x * 100 * (UsageDen / room).
UsageDen == Lcm(Lcm(estimatedRoomWidth, estimatedRoomHeight), estimatedRoomDepth)
\* (x / room) * 100
UsagePercent(x, room) == IF x.nan THEN NaN ELSE Num(x.v * 100 * (UsageDen \div room))
\* the literal p (a percentage) on the same denominator
Percent(p) == Num(p * UsageDen)

TooLarge ==
    [fits |-> FALSE, message |-> "Object may not fit here - Too large for space",
     icon |-> "warning", color |-> "#ef4444"]
TightFit ==
    [fits |-> TRUE, message |-> "Tight fit - Limited space around object",
     icon |-> "bolt", color |-> "#f59e0b"]
GoodFit ==
    [fits |-> TRUE, message |-> "Good fit - Comfortable space",
     icon |-> "check", color |-> "#10b981"]
PerfectFit ==
    [fits |-> TRUE, message |-> "Perfect fit - Plenty of space!",
     icon |-> "check", color |-> "#10b981"]

\* the same with one axis fitting being enough
fitCheckAnyAxis(dim) ==
    LET allFit == \/ JsLeq(dim.width, Num(estimatedRoomWidth))
                  \/ JsLeq(dim.height, Num(estimatedRoomHeight))
                  \/ JsLeq(dim.depth, Num(estimatedRoomDepth))
        spaceUsage ==
            JsMax(JsMax(UsagePercent(dim.width, estimatedRoomWidth),
                        UsagePercent(dim.height, estimatedRoomHeight)),
                  UsagePercent(dim.depth, estimatedRoomDepth))
    IN  IF ~allFit THEN TooLarge
        ELSE IF JsGt(spaceUsage, Percent(80)) THEN TightFit
        ELSE IF JsGt(spaceUsage, Percent(60)) THEN GoodFit
        ELSE PerfectFit

\* the same with the usage taken from the width alone
fitCheckWidthUsage(dim) ==
    LET allFit == /\ JsLeq(dim.width, Num(estimatedRoomWidth))
                  /\ JsLeq(dim.height, Num(estimatedRoomHeight))
                  /\ JsLeq(dim.depth, Num(estimatedRoomDepth))
        spaceUsage == UsagePercent(dim.width, estimatedRoomWidth)
    IN  IF ~allFit THEN TooLarge
        ELSE IF JsGt(spaceUsage, Percent(80)) THEN TightFit
        ELSE IF JsGt(spaceUsage, Percent(60)) THEN GoodFit
        ELSE PerfectFit

\* the same with >= in place of > at the two thresholds
fitCheckInclusive(dim) ==
    LET allFit == /\ JsLeq(dim.width, Num(estimatedRoomWidth))
                  /\ JsLeq(dim.height, Num(estimatedRoomHeight))
                  /\ JsLeq(dim.depth, Num(estimatedRoomDepth))
        spaceUsage ==
            JsMax(JsMax(UsagePercent(dim.width, estimatedRoomWidth),
                        UsagePercent(dim.height, estimatedRoomHeight)),
                  UsagePercent(dim.depth, estimatedRoomDepth))
    IN  IF ~allFit THEN TooLarge
        ELSE IF ~spaceUsage.nan /\ spaceUsage.v >= Percent(80).v THEN TightFit
        ELSE IF ~spaceUsage.nan /\ spaceUsage.v >= Percent(60).v THEN GoodFit
        ELSE PerfectFit

\* the body of the fit check effect up to setFitCheckResult
fitCheck(dim) ==
    LET widthFit == JsLeq(dim.width, Num(estimatedRoomWidth))
        heightFit == JsLeq(dim.height, Num(estimatedRoomHeight))
        depthFit == JsLeq(dim.depth, Num(estimatedRoomDepth))
        allFit == widthFit /\ heightFit /\ depthFit
        spaceUsage ==
            JsMax(JsMax(UsagePercent(dim.width, estimatedRoomWidth),
                        UsagePercent(dim.height, estimatedRoomHeight)),
                  UsagePercent(dim.depth, estimatedRoomDepth))
    IN  IF ~allFit THEN TooLarge
        ELSE IF JsGt(spaceUsage, Percent(80)) THEN TightFit
        ELSE IF JsGt(spaceUsage, Percent(60)) THEN GoodFit
        ELSE PerfectFit

----------------------------------------------------------------------------
(* Inputs *)

Impls == {"welcome", "part_000"}
UserAgents == {"desktop", "android", "iphone"}
XrStates == {"absent", "supported", "unsupported", "rejects"}
\* a viewer whose toBlob() promises all settle, and one whose promises may hang
Settling == {TRUE}
MayHang == {TRUE, FALSE}
\* what applyCustomizations meets in the viewer: no model yet, a throw inside
\* the try block (scene graph or window.THREE not as assumed), or a bounding box
ApplyOutcomes == {"notReady", "throws", "ok"}
\* the statuses the viewer's ar-status event carries
ArStatusEvents == {"not-presenting", "session-started", "object-placed", "failed"}

\* largest unscaled extent drawn, in cm
MaxSizeCm == 500
\* longest sequence of handlers followed in two runs
MaxTrace == 3
\* largest number of captures started in one page load
MaxCaptures == 2
\* how the continuation of captureARImage runs once toBlob has settled: the
\* promise rejects; createObjectURL throws on what toBlob resolved with; a DOM
\* step between createObjectURL and revokeObjectURL throws; nothing throws
CaptureOutcomes == {"rejected", "createThrows", "downloadThrows", "ok"}

NoParams == [color |-> Absent, scale |-> AbsentChars, pattern |-> Absent, material |-> Absent]
UrlParamSets ==
    {NoParams,
     [NoParams EXCEPT !.color = Given("#FF0000"), !.scale = GivenChars(<<"2">>)]}
ModelSizes ==
    {[x |-> 100, y |-> 50, z |-> 75],
     [x |-> MaxSizeCm - 100, y |-> 200, z |-> 300]}

----------------------------------------------------------------------------
(* State machine.  One action per handler or effect; each handler runs on the *)
(* closure of a render that has seen every earlier state update.  console.log *)
(* lines are left out of `out`; console.warn and console.error are kept.      *)

Op(name, arg) == [op |-> name, arg |-> arg]

\* the fields an observer keeps from the state before a handler
Snapshot ==
    [arStatus |-> arStatus, showMeasurements |-> showMeasurements,
     showConfirmation |-> showConfirmation, modelViewerRef |-> modelViewerRef,
     dimensions |-> dimensions, captureStatus |-> captureStatus,
     exporting |-> exporting, timers |-> timers, objectUrls |-> objectUrls]
NoSequence == [stage |-> 0, toggled |-> FALSE]

\* the environment a page load meets
EnvInit(impls, agents, vibrates, xrs, params, sizes, scripts, fates) ==
    /\ toBlobFates \in fates
    /\ impl \in impls
    /\ userAgent \in agents
    /\ hasVibrate \in vibrates
    /\ xr \in xrs
    /\ urlParams \in params
    /\ modelSize \in sizes
    /\ scriptLoaded \in scripts

\* the same with Dimensions starting as a zero value in place of null
MountInitZeroDimensions ==
    /\ isMobile = FALSE
    /\ isIOS = FALSE
    /\ webXRSupported = FALSE
    /\ showConfirmation = FALSE
    /\ customizations = DefaultCustomization
    /\ arStatus = "idle"
    /\ captureEnabled = FALSE
    /\ showMeasurements = FALSE
    /\ dimensions = Some([width |-> Num(0), height |-> Num(0), depth |-> Num(0)])
    /\ fitCheckResult = Null
    /\ isModelLoaded = FALSE
    /\ captureStatus = ""
    /\ nextCapture = 1
    /\ exporting = {}
    /\ timers = << >>
    /\ objectUrls = {}
    /\ captureStatusBy = 0
    /\ downloads = 0
    /\ customUSDZUrl = NoUrl
    /\ usdzEffectPending = TRUE
    /\ modelViewerRef = FALSE
    /\ initPending = TRUE
    /\ fitEffectPending = FALSE
    /\ lastOp = Op("mount", "")
    /\ out = << >>

\* the same with the capture control enabled from the start
MountInitCaptureEnabled ==
    /\ isMobile = FALSE
    /\ isIOS = FALSE
    /\ webXRSupported = FALSE
    /\ showConfirmation = FALSE
    /\ customizations = DefaultCustomization
    /\ arStatus = "idle"
    /\ captureEnabled = TRUE
    /\ showMeasurements = FALSE
    /\ dimensions = Null
    /\ fitCheckResult = Null
    /\ isModelLoaded = FALSE
    /\ captureStatus = ""
    /\ nextCapture = 1
    /\ exporting = {}
    /\ timers = << >>
    /\ objectUrls = {}
    /\ captureStatusBy = 0
    /\ downloads = 0
    /\ customUSDZUrl = NoUrl
    /\ usdzEffectPending = TRUE
    /\ modelViewerRef = FALSE
    /\ initPending = TRUE
    /\ fitEffectPending = FALSE
    /\ lastOp = Op("mount", "")
    /\ out = << >>

\* the component as mounted: the useState and useRef initial values, with
\* initialize() started and suspended on its await
MountInit ==
    /\ isMobile = FALSE
    /\ isIOS = FALSE
    /\ webXRSupported = FALSE
    /\ showConfirmation = FALSE
    /\ customizations = DefaultCustomization
    /\ arStatus = "idle"
    /\ captureEnabled = FALSE
    /\ showMeasurements = FALSE
    /\ dimensions = Null
    /\ fitCheckResult = Null
    /\ isModelLoaded = FALSE
    /\ captureStatus = ""
    /\ nextCapture = 1
    /\ exporting = {}
    /\ timers = << >>
    /\ objectUrls = {}
    /\ captureStatusBy = 0
    /\ downloads = 0
    /\ customUSDZUrl = NoUrl
    /\ usdzEffectPending = TRUE
    /\ modelViewerRef = FALSE
    /\ initPending = TRUE
    /\ fitEffectPending = FALSE
    /\ lastOp = Op("mount", "")
    /\ out = << >>

InitWith(impls, agents, vibrates, xrs, params, sizes, scripts, fates) ==
    /\ EnvInit(impls, agents, vibrates, xrs, params, sizes, scripts, fates)
    /\ MountInit
    /\ prev = Snapshot
    /\ seqPos = NoSequence
    /\ memo = Null
    /\ history = << >>

\* initialize() resumes after await supportsWebXR()
InitializeResolve ==
    /\ initPending
    /\ initPending' = FALSE
    /\ isMobile' = isMobileDevice(userAgent)
    /\ isIOS' = isIOSDevice(userAgent)
    /\ webXRSupported' = supportsWebXR(xr)
    /\ customizations' = parseUrlParams(urlParams)
    /\ scriptLoaded' = TRUE
    /\ usdzEffectPending' = TRUE
    /\ lastOp' = Op("initialize", "")
    /\ out' = << >>
    /\ UNCHANGED <<envVars, showConfirmation, arStatus, captureEnabled, showMeasurements,
                   dimensions, fitCheckResult, isModelLoaded, modelViewerRef,
                   fitEffectPending, captureVars, customUSDZUrl>>

\* model.scale once applyCustomizations has passed its `scale !== 1.0` test: the
\* customization's scale, or the 1.0 the model starts with
modelScale(scale) == IF JsNeq(scale, Num(10)) THEN scale ELSE Num(10)
\* new THREE.Box3().setFromObject(model).getSize(): the extent of the model
\* under model.scale, in mm
Box3Size(extentCm, scale) == IF scale.nan THEN NaN ELSE Num(extentCm * Abs(scale.v))
\* size * customizations.scale, in 0.1 mm
Scaled(size, scale) == IF size.nan \/ scale.nan THEN NaN ELSE Num(size.v * scale.v)

\* the Dimensions applyCustomizations passes to setDimensions
measuredDimensions(custom, size) ==
    [width  |-> Scaled(Box3Size(size.x, modelScale(custom.scale)), custom.scale),
     height |-> Scaled(Box3Size(size.y, modelScale(custom.scale)), custom.scale),
     depth  |-> Scaled(Box3Size(size.z, modelScale(custom.scale)), custom.scale)]

\* applyCustomizations(viewer): the log lines it writes
applyCustomizationsLog(outcome) ==
    CASE outcome = "notReady" -> <<"console.warn:Model not ready yet">>
      [] outcome = "throws" -> <<"console.error:Error applying customizations">>
      [] outcome = "ok" -> << >>

\* the same with the call made by both variants
callsApplyCustomizationsAlways(i) == TRUE

\* whether handleModelLoad calls applyCustomizations: only welcome.tsx does
callsApplyCustomizations(i) == i = "welcome"

\* the same with capture enabled by welcome.tsx only
captureEnabledAfterLoadWelcomeOnly(i) == i = "welcome"

\* setCaptureEnabled(true) in handleModelLoad, made by both variants
captureEnabledAfterLoad(i) == TRUE

\* handleModelLoad(e)
HandleModelLoad ==
    /\ scriptLoaded
    /\ \E outcome \in ApplyOutcomes :
        /\ isModelLoaded' = TRUE
        /\ captureEnabled' = (captureEnabledAfterLoad(impl) \/ captureEnabled)
        /\ modelViewerRef' = TRUE
        /\ IF callsApplyCustomizations(impl)
           THEN /\ out' = applyCustomizationsLog(outcome)
                /\ IF outcome = "ok"
                   THEN /\ dimensions' = Some(measuredDimensions(customizations, modelSize))
                        /\ fitEffectPending' = TRUE
                   ELSE UNCHANGED <<dimensions, fitEffectPending>>
                /\ lastOp' = Op("handleModelLoad", outcome)
           ELSE /\ out' = << >>
                /\ lastOp' = Op("handleModelLoad", "")
                /\ UNCHANGED <<dimensions, fitEffectPending>>
    /\ UNCHANGED <<envVars, isMobile, isIOS, webXRSupported, showConfirmation,
                   customizations, arStatus, showMeasurements, fitCheckResult,
                   scriptLoaded, initPending, captureVars, usdzVars>>

\* the effect with a verdict that also looks at the AR session
FitCheckEffectBySession ==
    /\ fitEffectPending
    /\ dimensions # Null
    /\ LET result == IF arStatus = "idle" THEN fitCheck(dimensions[1]) ELSE TooLarge
       IN  /\ fitCheckResult' = Some(result)
           /\ out' = IF hasVibrate /\ result.fits THEN <<"vibrate:50">> ELSE << >>
    /\ fitEffectPending' = FALSE
    /\ lastOp' = Op("fitCheckEffect", "")
    /\ UNCHANGED <<envVars, isMobile, isIOS, webXRSupported, showConfirmation,
                   customizations, arStatus, captureEnabled, showMeasurements,
                   dimensions, isModelLoaded, modelViewerRef, scriptLoaded, initPending,
                   captureVars, usdzVars>>

\* the same run for the first Dimensions only
FitCheckEffectOnce ==
    /\ fitEffectPending
    /\ dimensions # Null
    /\ fitCheckResult = Null
    /\ LET result == fitCheck(dimensions[1])
       IN  /\ fitCheckResult' = Some(result)
           /\ out' = IF hasVibrate /\ result.fits THEN <<"vibrate:50">> ELSE << >>
    /\ fitEffectPending' = FALSE
    /\ lastOp' = Op("fitCheckEffect", "")
    /\ UNCHANGED <<envVars, isMobile, isIOS, webXRSupported, showConfirmation,
                   customizations, arStatus, captureEnabled, showMeasurements,
                   dimensions, isModelLoaded, modelViewerRef, scriptLoaded, initPending,
                   captureVars, usdzVars>>

\* useEffect(..., [dimensions]): runs after the render that follows setDimensions
FitCheckEffect ==
    /\ fitEffectPending
    /\ dimensions # Null
    /\ LET result == fitCheck(dimensions[1])
       IN  /\ fitCheckResult' = Some(result)
           /\ out' = IF hasVibrate /\ result.fits THEN <<"vibrate:50">> ELSE << >>
    /\ fitEffectPending' = FALSE
    /\ lastOp' = Op("fitCheckEffect", "")
    /\ UNCHANGED <<envVars, isMobile, isIOS, webXRSupported, showConfirmation,
                   customizations, arStatus, captureEnabled, showMeasurements,
                   dimensions, isModelLoaded, modelViewerRef, scriptLoaded, initPending,
                   captureVars, usdzVars>>

\* BASE_USDZ_URL of each variant
baseUsdzUrl(i) ==
    IF i = "welcome" THEN "https://modelviewer.dev/shared-assets/models/Astronaut.usdz"
    ELSE "/public/sofa_v4.usdz"

\* encodeURIComponent on the colors drawn: '#' is escaped, hex digits are kept
encodeURIComponent(str) ==
    CASE str = "#FFFFFF" -> "%23FFFFFF"
      [] str = "#FF0000" -> "%23FF0000"
      [] str = "#00FF00" -> "%2300FF00"

DigitChar(d) ==
    CASE d = 0 -> "0" [] d = 1 -> "1" [] d = 2 -> "2" [] d = 3 -> "3" [] d = 4 -> "4"
      [] d = 5 -> "5" [] d = 6 -> "6" [] d = 7 -> "7" [] d = 8 -> "8" [] d = 9 -> "9"
\* the decimal digits of a natural number
RECURSIVE Digits(_)
Digits(n) == IF n < 10 THEN <<DigitChar(n)>> ELSE Append(Digits(n \div 10), DigitChar(n % 10))

\* `${n}` on a number kept in tenths: "NaN", or the shortest decimal form
numberToString(n) ==
    IF n.nan THEN <<"N", "a", "N">>
    ELSE (IF n.v < 0 THEN <<"-">> ELSE << >>)
         \o Digits(Abs(n.v) \div 10)
         \o (IF Abs(n.v) % 10 = 0 THEN << >> ELSE <<".", DigitChar(Abs(n.v) % 10)>>)

\* the same without the test of isIOS
usdzUrlAnyDevice(i, ios, custom) ==
    IF custom.color # "#FFFFFF"
    THEN Url(baseUsdzUrl(i), Some([color |-> encodeURIComponent(custom.color),
                                   scale |-> numberToString(custom.scale)]))
    ELSE Url(baseUsdzUrl(i), Null)

\* what the USDZ effect passes to setCustomUSDZUrl
usdzUrl(i, ios, custom) ==
    IF ios /\ custom.color # "#FFFFFF"
    THEN Url(baseUsdzUrl(i), Some([color |-> encodeURIComponent(custom.color),
                                   scale |-> numberToString(custom.scale)]))
    ELSE Url(baseUsdzUrl(i), Null)

\* useEffect(..., [isIOS, customizations]): runs after mount and after the render
\* that follows initialize()'s setIsIOS and setCustomizations
UsdzEffect ==
    /\ usdzEffectPending
    /\ customUSDZUrl' = usdzUrl(impl, isIOS, customizations)
    /\ usdzEffectPending' = FALSE
    /\ lastOp' = Op("usdzEffect", "")
    /\ out' = << >>
    /\ UNCHANGED <<envVars, reactVars, schedVars, captureVars>>

\* how often a call occurs in a handler's calls
Count(calls, call) == Cardinality({i \in DOMAIN calls : calls[i] = call})

\* navigator.vibrate(pattern) behind 'vibrate' in navigator
Vibrate(vibrate, pattern) == IF vibrate THEN <<pattern>> ELSE << >>

\* the same without the reset on not-presenting
arStatusAfterNoReset(status, cur) ==
    CASE status = "session-started" -> "session-started"
      [] status = "object-placed" -> "placed"
      [] status = "failed" -> "failed"
      [] OTHER -> cur

\* the same with object-placed reported as ready
arStatusAfterPlacedReady(status, cur) ==
    CASE status = "not-presenting" -> "idle"
      [] status = "session-started" -> "session-started"
      [] status = "object-placed" -> "ready"
      [] status = "failed" -> "failed"
      [] OTHER -> cur

\* handleARStatus: the value setArStatus leaves, from status and the current value
arStatusAfter(status, cur) ==
    CASE status = "not-presenting" -> "idle"
      [] status = "session-started" -> "session-started"
      [] status = "object-placed" -> "placed"
      [] status = "failed" -> "failed"
      [] OTHER -> cur
\* the same with the overlay left as it is on not-presenting
showMeasurementsAfterKeep(status, cur) ==
    CASE status = "session-started" -> TRUE
      [] OTHER -> cur

\* the same with the overlay switched on by object-placed too
showMeasurementsAfterPlacedShows(status, cur) ==
    CASE status = "not-presenting" -> FALSE
      [] status = "session-started" -> TRUE
      [] status = "object-placed" -> TRUE
      [] OTHER -> cur

\* handleARStatus: the value setShowMeasurements leaves
showMeasurementsAfter(status, cur) ==
    CASE status = "not-presenting" -> FALSE
      [] status = "session-started" -> TRUE
      [] OTHER -> cur
\* the same without the failure alert
arStatusEffectsSilent(status, vibrate) ==
    CASE status = "session-started" -> Vibrate(vibrate, "vibrate:50,100,50")
      [] status = "object-placed" -> Vibrate(vibrate, "vibrate:200")
      [] OTHER -> << >>

\* the same with an error logged where the haptics API is missing
arStatusEffectsNoticeWithoutHaptics(status, vibrate) ==
    CASE status = "session-started" ->
            IF vibrate THEN <<"vibrate:50,100,50">>
            ELSE <<"console.error:navigator.vibrate is not a function">>
      [] status = "object-placed" -> Vibrate(vibrate, "vibrate:200")
      [] status = "failed" -> <<"alert:AR session failed. Please try again.">>
      [] OTHER -> << >>

\* handleARStatus: haptics and the failure alert
arStatusEffects(status, vibrate) ==
    CASE status = "session-started" -> Vibrate(vibrate, "vibrate:50,100,50")
      [] status = "object-placed" -> Vibrate(vibrate, "vibrate:200")
      [] status = "failed" -> <<"alert:AR session failed. Please try again.">>
      [] OTHER -> << >>

\* handleARStatus(e) with e.detail.status = status
HandleARStatus ==
    /\ scriptLoaded
    /\ \E status \in ArStatusEvents :
        /\ lastOp' = Op("handleARStatus", status)
        /\ arStatus' = arStatusAfter(status, arStatus)
        /\ showMeasurements' = showMeasurementsAfter(status, showMeasurements)
        /\ out' = arStatusEffects(status, hasVibrate)
    /\ UNCHANGED <<envVars, isMobile, isIOS, webXRSupported, showConfirmation,
                   customizations, captureEnabled, dimensions, fitCheckResult,
                   isModelLoaded, schedVars, captureVars, usdzVars>>

\* the same without the isMobile test
showConfirmationAlways(mobile, cur) == TRUE

\* the same with no prompt opened
showConfirmationAfterClickIgnored(mobile, cur) == cur

\* the same with the isMobile test inverted
showConfirmationAfterClickOnDesktop(mobile, cur) == IF mobile THEN cur ELSE TRUE

\* handleViewInARClick: the value of showConfirmation it leaves
showConfirmationAfterClick(mobile, cur) == IF mobile THEN TRUE ELSE cur

\* handleViewInARClick()
HandleViewInARClick ==
    /\ showConfirmation' = showConfirmationAfterClick(isMobile, showConfirmation)
    /\ lastOp' = Op("handleViewInARClick", "")
    /\ out' = << >>
    /\ UNCHANGED <<envVars, isMobile, isIOS, webXRSupported, customizations, arStatus,
                   captureEnabled, showMeasurements, dimensions, fitCheckResult,
                   isModelLoaded, schedVars, captureVars, usdzVars>>

\* the same with the allow flag ignored
confirmationBranchIgnoringAllow(allow, viewer, canActivateAR) ==
    IF viewer /\ canActivateAR THEN "activate" ELSE "unavailable"
\* the same without the test of the viewer and its capability
confirmationBranchUnchecked(allow, viewer, canActivateAR) ==
    IF allow THEN "activate" ELSE "declined"

\* handleConfirmation(allow): the branch taken, from allow, modelViewerRef.current
\* and modelViewer.canActivateAR
confirmationBranch(allow, viewer, canActivateAR) ==
    IF allow
    THEN IF viewer /\ canActivateAR THEN "activate" ELSE "unavailable"
    ELSE "declined"
\* the same with setArStatus('detecting') left out
arStatusAfterConfirmationKeep(branch, cur) == cur

\* the same with a reset to idle when AR is not started
arStatusAfterConfirmationReset(branch, cur) == IF branch = "activate" THEN "detecting" ELSE "idle"

\* handleConfirmation: the value setArStatus leaves
arStatusAfterConfirmation(branch, cur) == IF branch = "activate" THEN "detecting" ELSE cur
\* handleConfirmation: the viewer call or the alert
confirmationEffects(branch) ==
    CASE branch = "activate" -> <<"activateAR">>
      [] branch = "unavailable" -> <<"alert:AR not available on this device">>
      [] OTHER -> << >>

\* what the user and the viewer answer to handleConfirmation
ConfirmationArg(allow, canActivateAR) ==
    IF allow
    THEN IF canActivateAR THEN "allow:canActivateAR" ELSE "allow:cannotActivateAR"
    ELSE "cancel"

\* handleConfirmation(allow), from the two buttons of the confirmation modal;
\* canActivateAR is the viewer's property, read only when the viewer is there
HandleConfirmation ==
    /\ showConfirmation
    /\ \E allow \in BOOLEAN, canActivateAR \in (IF modelViewerRef THEN BOOLEAN ELSE {FALSE}) :
        LET branch == confirmationBranch(allow, modelViewerRef, canActivateAR)
        IN  /\ showConfirmation' = FALSE
            /\ arStatus' = arStatusAfterConfirmation(branch, arStatus)
            /\ out' = confirmationEffects(branch)
            /\ lastOp' = Op("handleConfirmation", ConfirmationArg(allow, canActivateAR))
    /\ UNCHANGED <<envVars, isMobile, isIOS, webXRSupported, customizations,
                   captureEnabled, showMeasurements, dimensions, fitCheckResult,
                   isModelLoaded, schedVars, captureVars, usdzVars>>

\* the same without the test of the Dimensions
measurementsDisplayedAlways(dims, show) == show

\* the render: the Dimensions Display card is in the page
measurementsDisplayed(dims, show) == dims # Null /\ show

\* toggleMeasurements()
ToggleMeasurements ==
    /\ showMeasurements' = ~showMeasurements
    /\ lastOp' = Op("toggleMeasurements", "")
    /\ out' = << >>
    /\ UNCHANGED <<envVars, isMobile, isIOS, webXRSupported, showConfirmation,
                   customizations, arStatus, captureEnabled, dimensions, fitCheckResult,
                   isModelLoaded, schedVars, captureVars, usdzVars>>

\* the same without the test of the viewer handle
captureBranchUnchecked(viewer) == "export"

\* captureARImage: the branch taken, from modelViewerRef.current
captureBranch(viewer) == IF ~viewer THEN "notReady" ELSE "export"

\* captureARImage(), up to its await.  The status messages are kept without
\* their trailing tick and cross marks.
CaptureARImage ==
    /\ LET branch == captureBranch(modelViewerRef)
       IN  IF branch = "notReady"
           THEN /\ out' = <<"alert:Model viewer not ready">>
                /\ lastOp' = Op("captureARImage", "notReady")
                /\ UNCHANGED captureVars
           ELSE /\ nextCapture <= MaxCaptures
                /\ \E settles \in toBlobFates :
                      exporting' = exporting \cup {[id |-> nextCapture, settles |-> settles]}
                /\ captureStatus' = "Capturing..."
                /\ captureStatusBy' = nextCapture
                /\ nextCapture' = nextCapture + 1
                /\ out' = <<"toBlob">>
                /\ lastOp' = Op("captureARImage", "export")
                /\ UNCHANGED <<timers, objectUrls, downloads>>
    /\ UNCHANGED <<envVars, reactVars, schedVars, usdzVars>>

\* the same with the haptic also on the failure paths
captureEffectsAlwaysVibrate(outcome, vibrate) ==
    CASE outcome = "ok" ->
            <<"createObjectURL", "link.click", "revokeObjectURL">>
                \o Vibrate(vibrate, "vibrate:50,50,50") \o <<"setTimeout:2000">>
      [] outcome = "downloadThrows" ->
            <<"createObjectURL", "console.error:Capture failed">>
                \o Vibrate(vibrate, "vibrate:50,50,50") \o <<"setTimeout:2000">>
      [] OTHER ->
            <<"console.error:Capture failed">>
                \o Vibrate(vibrate, "vibrate:50,50,50") \o <<"setTimeout:2000">>

\* the same with the link clicked a second time
captureEffectsClicksTwice(outcome, vibrate) ==
    CASE outcome = "ok" ->
            <<"createObjectURL", "link.click", "link.click", "revokeObjectURL">>
                \o Vibrate(vibrate, "vibrate:50,50,50") \o <<"setTimeout:2000">>
      [] outcome = "downloadThrows" ->
            <<"createObjectURL", "console.error:Capture failed", "setTimeout:2000">>
      [] OTHER -> <<"console.error:Capture failed", "setTimeout:2000">>

\* captureARImage after its await: the calls it makes, in order
captureEffects(outcome, vibrate) ==
    CASE outcome = "ok" ->
            <<"createObjectURL", "link.click", "revokeObjectURL">>
                \o Vibrate(vibrate, "vibrate:50,50,50") \o <<"setTimeout:2000">>
      [] outcome = "downloadThrows" ->
            <<"createObjectURL", "console.error:Capture failed", "setTimeout:2000">>
      [] OTHER -> <<"console.error:Capture failed", "setTimeout:2000">>

\* captureARImage after its await: the object URLs left un-revoked
objectUrlsAfter(outcome, urls, id) ==
    IF outcome = "downloadThrows" THEN urls \cup {id} ELSE urls

\* the same with no clear timer set in the catch block
timersAfterFailureForgets(outcome, pending, id) ==
    IF outcome = "ok" THEN Append(pending, id) ELSE pending

\* captureARImage after its await: the pending timers once setTimeout has been
\* called, in the try block as in the catch block
timersAfter(outcome, pending, id) == Append(pending, id)

\* captureARImage after its await: the message setCaptureStatus leaves
captureStatusAfter(outcome, cur) == IF outcome = "ok" THEN "Image saved!" ELSE "Capture failed"

\* captureARImage resumes once toBlob has settled, and runs to its end
CaptureResume ==
    /\ \E c \in exporting, outcome \in CaptureOutcomes :
        /\ c.settles
        /\ exporting' = exporting \ {c}
        /\ out' = captureEffects(outcome, hasVibrate)
        /\ downloads' = downloads + Count(captureEffects(outcome, hasVibrate), "link.click")
        /\ objectUrls' = objectUrlsAfter(outcome, objectUrls, c.id)
        /\ captureStatus' = captureStatusAfter(outcome, captureStatus)
        /\ captureStatusBy' = c.id
        /\ timers' = timersAfter(outcome, timers, c.id)
        /\ lastOp' = Op("captureResume", outcome)
    /\ UNCHANGED <<envVars, reactVars, schedVars, usdzVars, nextCapture>>

\* the callback of the oldest setTimeout(() => setCaptureStatus(''), 2000): the
\* delays are equal, so the callbacks fire in the order they were set
CaptureTimer ==
    /\ timers # << >>
    /\ timers' = Tail(timers)
    /\ captureStatus' = ""
    /\ captureStatusBy' = 0
    /\ lastOp' = Op("captureTimer", "")
    /\ out' = << >>
    /\ UNCHANGED <<envVars, reactVars, schedVars, usdzVars, nextCapture, exporting, objectUrls,
                   downloads>>

Init ==
    InitWith(Impls, UserAgents, {TRUE}, {"supported"}, UrlParamSets,
             {[x |-> 100, y |-> 50, z |-> 75]}, BOOLEAN, {Settling})

Next ==
    \/ InitializeResolve /\ UNCHANGED obsVars
    \/ HandleModelLoad /\ UNCHANGED obsVars
    \/ FitCheckEffect /\ UNCHANGED obsVars
    \/ HandleARStatus /\ UNCHANGED obsVars
    \/ HandleViewInARClick /\ UNCHANGED obsVars
    \/ HandleConfirmation /\ UNCHANGED obsVars
    \/ ToggleMeasurements /\ UNCHANGED obsVars
    \/ CaptureARImage /\ UNCHANGED obsVars
    \/ CaptureResume /\ UNCHANGED obsVars
    \/ CaptureTimer /\ UNCHANGED obsVars
    \/ UsdzEffect /\ UNCHANGED obsVars

Spec == Init /\ [][Next]_vars

----------------------------------------------------------------------------
(* The fit check over a grid of model sizes *)

\* extents in cm around the classification boundaries of one room axis
FitExtents(room, more) ==
    LET roomCm == room \div 100
    IN  {0, 100, MaxSizeCm} \cup more
          \cup {(roomCm * p) \div 100 : p \in {60, 80, 100}}
          \cup {(roomCm * p) \div 100 + 1 : p \in {60, 80, 100}}
FitSizes ==
    {[x |-> a, y |-> b, z |-> c] :
        a \in FitExtents(estimatedRoomWidth, {350}),
        b \in FitExtents(estimatedRoomHeight, {200}),
        c \in FitExtents(estimatedRoomDepth, {})}
FitParams ==
    {NoParams,
     [NoParams EXCEPT !.scale = GivenChars(<<"0", ".", "5">>)],
     [NoParams EXCEPT !.scale = GivenChars(<<"-", "1">>)],
     [NoParams EXCEPT !.scale = GivenChars(<<"a", "b", "c">>)]}

InitFit == InitWith({"welcome"}, {"android"}, {TRUE}, {"absent"}, FitParams, FitSizes, {FALSE}, {Settling})

NextFit ==
    \/ InitializeResolve /\ UNCHANGED obsVars
    \/ HandleModelLoad /\ UNCHANGED obsVars
    \/ FitCheckEffect /\ UNCHANGED obsVars

SpecFit == InitFit /\ [][NextFit]_vars

\* the stored verdict is the one the effect produced from the stored Dimensions
FitProduced == dimensions # Null /\ fitCheckResult # Null /\ ~fitEffectPending

\* x > limit, x <= limit, on a length in 0.1 mm
Exceeds(x, limit) == ~x.nan /\ x.v > limit
Within(x, limit) == ~x.nan /\ x.v <= limit
\* (x / room) * 100 > p and = p, by cross multiplication
UsageOver(x, room, p) == x.v * 100 > p * room
UsageIs(x, room, p) == x.v * 100 = p * room
AllWithin(d) ==
    /\ Within(d.width, estimatedRoomWidth)
    /\ Within(d.height, estimatedRoomHeight)
    /\ Within(d.depth, estimatedRoomDepth)
SomeUsageOver(d, p) ==
    \/ UsageOver(d.width, estimatedRoomWidth, p)
    \/ UsageOver(d.height, estimatedRoomHeight, p)
    \/ UsageOver(d.depth, estimatedRoomDepth, p)
SomeUsageIs(d, p) ==
    \/ UsageIs(d.width, estimatedRoomWidth, p)
    \/ UsageIs(d.height, estimatedRoomHeight, p)
    \/ UsageIs(d.depth, estimatedRoomDepth, p)
Metres(w, h, d) == [width |-> Num(w * 10000), height |-> Num(h * 10000), depth |-> Num(d * 10000)]

\* C1: whenever one axis of the Dimensions exceeds its room limit (width > 4 m,
\* height > 2.8 m or depth > 5 m), the verdict produced has fits = false and the
\* message 'Object may not fit here - Too large for space', whatever the other axes.
C1_TooLargeIsCritical ==
    FitProduced =>
        LET d == dimensions[1]
            r == fitCheckResult[1]
        IN  (\/ Exceeds(d.width, estimatedRoomWidth)
             \/ Exceeds(d.height, estimatedRoomHeight)
             \/ Exceeds(d.depth, estimatedRoomDepth))
            => /\ r.fits = FALSE
               /\ r.message = "Object may not fit here - Too large for space"
               /\ r.color = "#ef4444"

\* width 5 m, height 1 m, depth 1 m has been judged too large
C1_Witness ==
    /\ FitProduced
    /\ dimensions[1] = Metres(5, 1, 1)
    /\ fitCheckResult[1].fits = FALSE

\* C2: whenever all three axes are within the room, fits = true and the message
\* is 'Tight fit' when the usage max(w/4, h/2.8, d/5) x 100 is over 80, 'Good fit'
\* when it is over 60 and at most 80, and 'Perfect fit' otherwise.
C2_WithinIsClassifiedByUsage ==
    FitProduced =>
        LET d == dimensions[1]
            r == fitCheckResult[1]
        IN  AllWithin(d) =>
              /\ r.fits = TRUE
              /\ r.message =
                    IF SomeUsageOver(d, 80) THEN "Tight fit - Limited space around object"
                    ELSE IF SomeUsageOver(d, 60) THEN "Good fit - Comfortable space"
                    ELSE "Perfect fit - Plenty of space!"

\* width 3.5 m, height 2 m, depth 3 m (usage 87.5) has been judged a tight fit
C2_Witness ==
    /\ FitProduced
    /\ dimensions[1] = [width |-> Num(35000), height |-> Num(20000), depth |-> Num(30000)]
    /\ fitCheckResult[1].fits = TRUE
    /\ fitCheckResult[1].message = "Tight fit - Limited space around object"
    /\ fitCheckResult[1].color = "#f59e0b"

\* C3: the thresholds are exclusive: fitting Dimensions whose usage is exactly 80
\* get 'Good fit', whose usage is exactly 60 get 'Perfect fit', and Dimensions with
\* an axis exactly on its room limit (usage 100) still fit, with 'Tight fit'.
C3_BoundariesExclusive ==
    FitProduced =>
        LET d == dimensions[1]
            r == fitCheckResult[1]
        IN  AllWithin(d) =>
              /\ (SomeUsageIs(d, 80) /\ ~SomeUsageOver(d, 80))
                    => r.fits /\ r.message = "Good fit - Comfortable space"
              /\ (SomeUsageIs(d, 60) /\ ~SomeUsageOver(d, 60))
                    => r.fits /\ r.message = "Perfect fit - Plenty of space!"
              /\ SomeUsageIs(d, 100)
                    => r.fits /\ r.message = "Tight fit - Limited space around object"

\* a width of 3.2 m (usage exactly 80) beside smaller axes has been judged a good fit
C3_Witness ==
    /\ FitProduced
    /\ dimensions[1] = [width |-> Num(32000), height |-> Num(10000), depth |-> Num(10000)]
    /\ fitCheckResult[1].message = "Good fit - Comfortable space"

----------------------------------------------------------------------------
(* Two runs: the page is loaded again, possibly on another device and with   *)
(* other parameters, while an observer keeps one verdict of an earlier run.  *)

RunParams ==
    {NoParams,
     [NoParams EXCEPT !.color = Given("#FF0000"), !.scale = GivenChars(<<"2">>)]}
\* the second size at scale 1 measures what the first measures at scale 2
RunSizes == {[x |-> 100, y |-> 50, z |-> 75], [x |-> 400, y |-> 200, z |-> 300]}

RunEnv == EnvInit({"welcome"}, {"desktop", "android"}, BOOLEAN, {"absent"}, RunParams, RunSizes, {FALSE}, {Settling})

InitRuns ==
    /\ RunEnv
    /\ MountInit
    /\ prev = Snapshot
    /\ seqPos = NoSequence
    /\ memo = Null
    /\ history = << >>

\* what the observer keeps of a verdict: the Dimensions, the verdict, and the
\* session it was produced in
Remembered ==
    [dim |-> dimensions[1], result |-> fitCheckResult[1], arStatus |-> arStatus,
     scale |-> customizations.scale, isMobile |-> isMobile, hasVibrate |-> hasVibrate]

\* the first run ends as the fit check effect has produced a verdict: the
\* observer keeps it and the page is loaded anew
Reload ==
    /\ memo = Null
    /\ lastOp.op = "fitCheckEffect"
    /\ memo' = Some(Remembered)
    /\ UNCHANGED <<prev, seqPos, history>>
    /\ impl' = "welcome"
    /\ userAgent' \in {"desktop", "android"}
    /\ hasVibrate' \in BOOLEAN
    /\ xr' = "absent"
    /\ urlParams' \in RunParams
    /\ modelSize' \in RunSizes
    /\ toBlobFates' = Settling
    /\ scriptLoaded' = FALSE
    /\ isMobile' = FALSE
    /\ isIOS' = FALSE
    /\ webXRSupported' = FALSE
    /\ showConfirmation' = FALSE
    /\ customizations' = DefaultCustomization
    /\ arStatus' = "idle"
    /\ captureEnabled' = FALSE
    /\ showMeasurements' = FALSE
    /\ dimensions' = Null
    /\ fitCheckResult' = Null
    /\ isModelLoaded' = FALSE
    /\ captureStatus' = ""
    /\ nextCapture' = 1
    /\ exporting' = {}
    /\ timers' = << >>
    /\ objectUrls' = {}
    /\ captureStatusBy' = 0
    /\ downloads' = 0
    /\ customUSDZUrl' = NoUrl
    /\ usdzEffectPending' = TRUE
    /\ modelViewerRef' = FALSE
    /\ initPending' = TRUE
    /\ fitEffectPending' = FALSE
    /\ lastOp' = Op("mount", "")
    /\ out' = << >>

NextRuns ==
    \/ InitializeResolve /\ UNCHANGED obsVars
    \/ HandleModelLoad /\ UNCHANGED obsVars
    \/ FitCheckEffect /\ UNCHANGED obsVars
    \/ HandleARStatus /\ UNCHANGED obsVars
    \/ HandleViewInARClick /\ UNCHANGED obsVars
    \/ HandleConfirmation /\ UNCHANGED obsVars
    \/ Reload

SpecRuns == InitRuns /\ [][NextRuns]_vars

----------------------------------------------------------------------------
(* The AR session, with an observer of each handler's starting state and of  *)
(* the viewer's event sequence                                               *)

InitAR ==
    InitWith(Impls, UserAgents, BOOLEAN, {"absent"}, {NoParams},
             {[x |-> 100, y |-> 50, z |-> 75]}, BOOLEAN, {Settling})

\* Progress through the viewer event sequence session-started (from idle),
\* object-placed, not-presenting; between the first two the user may toggle the
\* measurement overlay.  Any other handler ends the sequence.
SeqAfter(seq, op, statusBefore) ==
    IF op.op = "handleARStatus"
    THEN IF op.arg = "session-started" /\ statusBefore = "idle"
            THEN [stage |-> 1, toggled |-> FALSE]
         ELSE IF op.arg = "object-placed" /\ seq.stage = 1
            THEN [stage |-> 2, toggled |-> seq.toggled]
         ELSE IF op.arg = "not-presenting" /\ seq.stage = 2
            THEN [stage |-> 3, toggled |-> seq.toggled]
         ELSE NoSequence
    ELSE IF op.op = "toggleMeasurements" /\ seq.stage = 1
            THEN [stage |-> 1, toggled |-> TRUE]
         ELSE NoSequence

Observe ==
    /\ prev' = Snapshot
    /\ seqPos' = SeqAfter(seqPos, lastOp', arStatus)
    /\ UNCHANGED <<memo, history>>

NextAR ==
    \/ InitializeResolve /\ Observe
    \/ HandleModelLoad /\ Observe
    \/ FitCheckEffect /\ Observe
    \/ HandleARStatus /\ Observe
    \/ HandleViewInARClick /\ Observe
    \/ HandleConfirmation /\ Observe
    \/ ToggleMeasurements /\ Observe

SpecAR == InitAR /\ [][NextAR]_vars

\* C5: from idle, the viewer events session-started, object-placed, not-presenting
\* leave the status session-started, then placed, then idle with the measurement
\* overlay hidden, also when the user toggles the overlay between the first two.
C5_SessionSequenceEndsIdle ==
    /\ seqPos.stage = 1 => arStatus = "session-started"
    /\ seqPos.stage = 2 => arStatus = "placed"
    /\ seqPos.stage = 3 => arStatus = "idle" /\ showMeasurements = FALSE

\* the sequence has been completed with a toggle between its first two events
C5_Witness ==
    /\ seqPos.stage = 3
    /\ seqPos.toggled
    /\ arStatus = "idle"
    /\ ~showMeasurements

\* C6: a 'view in AR' request on a session flagged non-mobile leaves the AR status
\* as it was (idle stays idle), shows no confirmation prompt and calls nothing on
\* the viewer.
C6_NonMobileRequestChangesNothing ==
    (lastOp.op = "handleViewInARClick" /\ ~isMobile)
        => /\ arStatus = prev.arStatus
           /\ showConfirmation = FALSE
           /\ showMeasurements = prev.showMeasurements
           /\ out = << >>

\* the request has been made on a desktop session, after detection, in status idle
C6_Witness ==
    /\ lastOp.op = "handleViewInARClick"
    /\ ~initPending
    /\ userAgent = "desktop"
    /\ ~isMobile
    /\ prev.arStatus = "idle"
    /\ arStatus = "idle"
    /\ ~showConfirmation

\* C7: accepting the confirmation while the viewer handle is set and the viewer
\* reports canActivateAR sets the AR status to detecting, from whatever status,
\* and calls activateAR exactly once.
C7_AcceptStartsDetecting ==
    (lastOp = Op("handleConfirmation", "allow:canActivateAR") /\ prev.modelViewerRef)
        => /\ arStatus = "detecting"
           /\ out = <<"activateAR">>
           /\ showConfirmation = FALSE

\* the confirmation has been accepted in status failed
C7_Witness ==
    /\ lastOp = Op("handleConfirmation", "allow:canActivateAR")
    /\ prev.modelViewerRef
    /\ prev.showConfirmation
    /\ prev.arStatus = "failed"
    /\ arStatus = "detecting"

\* C8 as stated: declining the confirmation leaves the AR status idle and calls
\* nothing on the viewer.
C8_DeclineLeavesIdle ==
    lastOp = Op("handleConfirmation", "cancel")
        => /\ arStatus = "idle"
           /\ out = << >>

\* C8, amended: declining the confirmation leaves the AR status as it was (idle
\* when it was idle), closes the prompt, and calls nothing on the viewer.
C8_DeclineLeavesStatus ==
    lastOp = Op("handleConfirmation", "cancel")
        => /\ arStatus = prev.arStatus
           /\ showConfirmation = FALSE
           /\ out = << >>

\* the confirmation has been declined in status failed
C8_Witness ==
    /\ lastOp = Op("handleConfirmation", "cancel")
    /\ prev.showConfirmation
    /\ prev.arStatus = "failed"
    /\ arStatus = "failed"

\* C9: accepting the confirmation while the viewer handle is absent or the viewer
\* reports no AR activation capability raises the notice, calls nothing on the
\* viewer and leaves the AR status as it was.
C9_UnavailableKeepsStatus ==
    lastOp = Op("handleConfirmation", "allow:cannotActivateAR")
        => /\ out = <<"alert:AR not available on this device">>
           /\ arStatus = prev.arStatus
           /\ showConfirmation = FALSE

\* the confirmation has been accepted in status placed with a viewer that cannot
\* activate AR
C9_Witness ==
    /\ lastOp = Op("handleConfirmation", "allow:cannotActivateAR")
    /\ prev.modelViewerRef
    /\ prev.arStatus = "placed"
    /\ arStatus = "placed"
    /\ out = <<"alert:AR not available on this device">>

\* C10: after a not-presenting event the AR status is idle and the measurement
\* overlay is hidden, from whatever status and overlay setting.
C10_NotPresentingResets ==
    lastOp = Op("handleARStatus", "not-presenting")
        => /\ arStatus = "idle"
           /\ showMeasurements = FALSE

\* not-presenting has arrived in status idle with the overlay on, which only a
\* toggle by the user can have produced
C10_Witness ==
    /\ lastOp = Op("handleARStatus", "not-presenting")
    /\ prev.arStatus = "idle"
    /\ prev.showMeasurements
    /\ arStatus = "idle"
    /\ ~showMeasurements

\* C11 as stated: after a session-started event, from whatever status, the AR
\* status is session-started, the measurement overlay is shown to the user, also
\* when no Dimensions have been produced, and the triple-pulse haptic has been
\* triggered (on a device with haptics).
C11_SessionStartedShowsOverlay ==
    lastOp = Op("handleARStatus", "session-started")
        => /\ arStatus = "session-started"
           /\ measurementsDisplayed(dimensions, showMeasurements)
           /\ out = Vibrate(hasVibrate, "vibrate:50,100,50")

\* C11, amended: after a session-started event, from whatever status, the AR
\* status is session-started, the measurement overlay flag is on, the overlay is
\* in the page exactly when Dimensions have been produced, and the triple-pulse
\* haptic has been triggered (on a device with haptics).
C11_SessionStartedSetsOverlayFlag ==
    lastOp = Op("handleARStatus", "session-started")
        => /\ arStatus = "session-started"
           /\ showMeasurements = TRUE
           /\ measurementsDisplayed(dimensions, showMeasurements) <=> (dimensions # Null)
           /\ out = Vibrate(hasVibrate, "vibrate:50,100,50")

\* session-started has arrived in status failed with no Dimensions produced: the
\* flag is on and the overlay is not in the page
C11_Witness ==
    /\ lastOp = Op("handleARStatus", "session-started")
    /\ prev.arStatus = "failed"
    /\ ~prev.showMeasurements
    /\ dimensions = Null
    /\ showMeasurements
    /\ ~measurementsDisplayed(dimensions, showMeasurements)
    /\ out = <<"vibrate:50,100,50">>

\* C13: after a failed event, from whatever status, the AR status is failed and
\* the failure notice has been raised; the measurement overlay flag is as it was.
C13_FailedKeepsOverlayFlag ==
    lastOp = Op("handleARStatus", "failed")
        => /\ arStatus = "failed"
           /\ out = <<"alert:AR session failed. Please try again.">>
           /\ showMeasurements = prev.showMeasurements

\* failed has arrived in status session-started with the overlay flag on
C13_Witness ==
    /\ lastOp = Op("handleARStatus", "failed")
    /\ prev.arStatus = "session-started"
    /\ prev.showMeasurements
    /\ showMeasurements
    /\ arStatus = "failed"

----------------------------------------------------------------------------
(* The AR session with captures that do not overlap, on one device           *)

InitCapture ==
    InitWith({"welcome"}, {"android"}, BOOLEAN, {"absent"}, {NoParams},
             {[x |-> 100, y |-> 50, z |-> 75]}, {TRUE}, {Settling})

\* no capture is suspended on its export and no clear timer is pending
NoCaptureInFlight == exporting = {} /\ timers = << >>

NextSession ==
    \/ InitializeResolve /\ UNCHANGED obsVars
    \/ HandleModelLoad /\ UNCHANGED obsVars
    \/ FitCheckEffect /\ UNCHANGED obsVars
    \/ HandleARStatus /\ UNCHANGED obsVars
    \/ HandleViewInARClick /\ UNCHANGED obsVars
    \/ HandleConfirmation /\ UNCHANGED obsVars
    \/ ToggleMeasurements /\ UNCHANGED obsVars
    \/ NoCaptureInFlight /\ CaptureARImage /\ UNCHANGED obsVars
    \/ CaptureResume /\ UNCHANGED obsVars
    \/ CaptureTimer /\ UNCHANGED obsVars

SpecSession == InitCapture /\ [][NextSession]_vars

\* C12: an object-placed event, from whatever status, sets the AR status to
\* placed and triggers one single haptic pulse (on a device with haptics), and
\* leaves the measurement overlay flag, the confirmation prompt, the Dimensions and
\* the capture status message as they were.
C12_ObjectPlacedChangesStatusOnly ==
    [][lastOp' = Op("handleARStatus", "object-placed")
         => /\ arStatus' = "placed"
            /\ out' = Vibrate(hasVibrate, "vibrate:200")
            /\ UNCHANGED <<showMeasurements, showConfirmation, dimensions, captureStatus>>]_vars

\* object-placed has arrived with the overlay flag off, the prompt open,
\* Dimensions produced and a capture message on display
C12_Witness ==
    /\ lastOp = Op("handleARStatus", "object-placed")
    /\ arStatus = "placed"
    /\ out = <<"vibrate:200">>
    /\ ~showMeasurements
    /\ showConfirmation
    /\ dimensions # Null
    /\ captureStatus = "Image saved!"

\* C14: the AR status changes only in a step of handleARStatus or in the step of
\* an accepted confirmation that activates AR: model load, the resolution of the
\* capability probe, the capture steps (start, resumption on success or failure,
\* timer), the measurement toggle, the fit check effect, the 'view in AR' click
\* and a declined confirmation leave it as it was.
C14_StatusChangesOnlyBySession ==
    [][arStatus' # arStatus
         => \/ lastOp'.op = "handleARStatus"
            \/ lastOp' = Op("handleConfirmation", "allow:canActivateAR")]_vars

\* a capture has failed and a confirmation has been declined outside status idle
C14_Witness ==
    \/ lastOp = Op("captureResume", "rejected") /\ arStatus = "placed"
    \/ lastOp = Op("handleConfirmation", "cancel") /\ arStatus = "failed" /\ captureStatus # ""

----------------------------------------------------------------------------
(* Captures that may overlap                                                 *)

NextCapture ==
    \/ InitializeResolve /\ UNCHANGED obsVars
    \/ HandleModelLoad /\ UNCHANGED obsVars
    \/ FitCheckEffect /\ UNCHANGED obsVars
    \/ CaptureARImage /\ UNCHANGED obsVars
    \/ CaptureResume /\ UNCHANGED obsVars
    \/ CaptureTimer /\ UNCHANGED obsVars

SpecCapture == InitCapture /\ [][NextCapture]_vars

\* the position of the first x in seq, 0 when there is none
IndexOf(seq, x) ==
    IF \E i \in 1..Len(seq) : seq[i] = x
    THEN CHOOSE i \in 1..Len(seq) : seq[i] = x /\ \A j \in 1..(i - 1) : seq[j] # x
    ELSE 0

\* C16: a capture request made while modelViewerRef.current is not set raises the
\* 'Model viewer not ready' notice and does nothing else: no export is requested,
\* no object URL is created, no download is triggered, the capture status message
\* and the pending timers are as they were.
C16_CaptureWithoutViewerOnlyReports ==
    [][(lastOp'.op = "captureARImage" /\ ~modelViewerRef)
         => /\ out' = <<"alert:Model viewer not ready">>
            /\ UNCHANGED <<captureStatus, exporting, timers, objectUrls, nextCapture>>
            /\ UNCHANGED reactVars]_vars

\* a capture has been requested before the model was loaded
C16_Witness ==
    /\ lastOp = Op("captureARImage", "notReady")
    /\ ~modelViewerRef
    /\ out = <<"alert:Model viewer not ready">>
    /\ captureStatus = ""
    /\ nextCapture = 1

\* C18: at most one clear timer is pending at any time, and the timer that fires
\* next is the one of the capture whose message is shown, so that no earlier
\* capture's timer clears the message of a later one.
C18_OneTimerLastStartedWins ==
    /\ Len(timers) <= 1
    /\ (timers # << >> /\ captureStatus # "") => Head(timers) = captureStatusBy

\* C19: every object URL created and not revoked belongs to a capture that has
\* not ended yet: once a capture has ended, on the success path or on a failure
\* path, its object URL has been revoked.
C19_ObjectUrlsReleased ==
    \A id \in objectUrls : \E c \in exporting : c.id = id

\* C20: the capture haptic (three 50 ms pulses) is issued only by the resumption
\* of a capture in which nothing failed, and after the download was triggered:
\* never by a capture without viewer handle nor by one whose export or download
\* step failed.
C20_CaptureHapticOnlyOnSuccess ==
    IndexOf(out, "vibrate:50,50,50") > 0
        => /\ lastOp = Op("captureResume", "ok")
           /\ IndexOf(out, "link.click") > 0
           /\ IndexOf(out, "link.click") < IndexOf(out, "vibrate:50,50,50")

\* a capture has succeeded on a device with haptics, after one whose download
\* step failed
C20_Witness ==
    /\ lastOp = Op("captureResume", "ok")
    /\ hasVibrate
    /\ IndexOf(out, "vibrate:50,50,50") > 0
    /\ objectUrls # {}
    /\ captureStatus = "Image saved!"

----------------------------------------------------------------------------
(* Progress.  The steps the program takes by itself are taken when they can  *)
(* be: the continuation of initialize(), the fit check effect, the timer     *)
(* callbacks, and the continuation of a capture whose export settles.  The   *)
(* events of the viewer and of the user may stop at any time.                *)

InitSessionLive ==
    InitWith({"welcome"}, {"android"}, {TRUE}, {"absent"}, {NoParams},
             {[x |-> 100, y |-> 50, z |-> 75]}, {TRUE}, {Settling})

SpecSessionLive ==
    /\ InitSessionLive
    /\ [][NextSession]_vars
    /\ WF_vars(InitializeResolve /\ UNCHANGED obsVars)
    /\ WF_vars(FitCheckEffect /\ UNCHANGED obsVars)
    /\ WF_vars(CaptureResume /\ UNCHANGED obsVars)
    /\ WF_vars(CaptureTimer /\ UNCHANGED obsVars)

\* C15: a state with AR status failed is eventually followed by one with AR
\* status idle, also when the viewer emits nothing more and the user does nothing.
C15_FailedReturnsToIdle == (arStatus = "failed") ~> (arStatus = "idle")

\* the component of part_000, whose model load produces no Dimensions, with a
\* viewer whose exports may hang
InitCaptureLive ==
    InitWith({"part_000"}, {"android"}, {TRUE}, {"absent"}, {NoParams},
             {[x |-> 100, y |-> 50, z |-> 75]}, {TRUE}, {MayHang})

NextCaptureLive ==
    \/ InitializeResolve /\ UNCHANGED obsVars
    \/ HandleModelLoad /\ UNCHANGED obsVars
    \/ CaptureARImage /\ UNCHANGED obsVars
    \/ CaptureResume /\ UNCHANGED obsVars
    \/ CaptureTimer /\ UNCHANGED obsVars

SpecCaptureLive ==
    /\ InitCaptureLive
    /\ [][NextCaptureLive]_vars
    /\ WF_vars(InitializeResolve /\ UNCHANGED obsVars)
    /\ WF_vars(CaptureResume /\ UNCHANGED obsVars)
    /\ WF_vars(CaptureTimer /\ UNCHANGED obsVars)

\* C17 as stated: a capture status message on display is eventually cleared,
\* whether the export succeeds, fails or never settles.
C17_CaptureStatusAlwaysCleared == (captureStatus # "") ~> (captureStatus = "")

\* C17, amended: while a capture whose export settles is in flight, and while an
\* outcome message ('Image saved!' or 'Capture failed') is on display, the capture
\* status message is eventually cleared.
C17_SettledCaptureIsCleared ==
    (\/ \E c \in exporting : c.settles
     \/ captureStatus \in {"Image saved!", "Capture failed"}) ~> (captureStatus = "")

\* the message of a failed capture has been cleared by its timer while another
\* capture hangs on its export
C17_Witness ==
    /\ lastOp = Op("captureTimer", "")
    /\ captureStatus = ""
    /\ timers = << >>
    /\ \E c \in exporting : ~c.settles

----------------------------------------------------------------------------
(* Customization resolution and capability detection, over a set of URLs,    *)
(* devices and probe results; the model may load before initialize() resumes *)
(* when the viewer script is in the document already                         *)

ResolveParams ==
    {NoParams,
     [color |-> Given(""), scale |-> GivenChars(<< >>), pattern |-> Given(""),
      material |-> Given("")],
     [color |-> Given("#FF0000"), scale |-> GivenChars(<<"2">>), pattern |-> Given("striped"),
      material |-> Given("metallic")],
     [NoParams EXCEPT !.color = Given("#00FF00"), !.material = Given("")],
     [NoParams EXCEPT !.scale = GivenChars(<<"0", ".", "5">>)],
     [NoParams EXCEPT !.scale = GivenChars(<<"-", "1">>), !.pattern = Given("dots")],
     [NoParams EXCEPT !.scale = GivenChars(<<"a", "b", "c">>)]}

InitResolve ==
    InitWith({"welcome"}, UserAgents, {TRUE}, XrStates, ResolveParams,
             {[x |-> 100, y |-> 50, z |-> 75]}, BOOLEAN, {Settling})

NextResolve ==
    \/ InitializeResolve /\ UNCHANGED obsVars
    \/ HandleModelLoad /\ UNCHANGED obsVars
    \/ FitCheckEffect /\ UNCHANGED obsVars
    \/ HandleViewInARClick /\ UNCHANGED obsVars

SpecResolve == InitResolve /\ [][NextResolve]_vars

\* initialize() has set the detected values
Initialized == ~initPending

\* the value of a key: its default when the key is absent or empty
KeyOr(p, dflt) == IF ~p.present \/ p.value = "" THEN dflt ELSE p.value
\* the numbers the scale texts drawn denote, in tenths
ScaleDenoted(chars) ==
    CASE chars = <<"2">> -> 20
      [] chars = <<"0", ".", "5">> -> 5
      [] chars = <<"-", "1">> -> -10
      [] chars = <<"1", ".", "0">> -> 10
ScaleTexts == {<<"2">>, <<"0", ".", "5">>, <<"-", "1">>, <<"1", ".", "0">>}

\* C21: once initialize() has stored the resolved Customization, an empty
\* parameter set has given exactly color '#FFFFFF', scale 1.0, pattern 'solid',
\* material 'default'; in general each absent or empty key has its default, each
\* present color, pattern and material is passed through, and a present numeric
\* scale is the number it denotes.
C21_ResolutionTotalWithDefaults ==
    Initialized =>
        /\ urlParams = NoParams =>
              customizations = [color |-> "#FFFFFF", scale |-> Num(10),
                                pattern |-> "solid", material |-> "default"]
        /\ customizations.color = KeyOr(urlParams.color, "#FFFFFF")
        /\ customizations.pattern = KeyOr(urlParams.pattern, "solid")
        /\ customizations.material = KeyOr(urlParams.material, "default")
        /\ (~urlParams.scale.present \/ urlParams.scale.value = << >>)
              => customizations.scale = Num(10)
        /\ (urlParams.scale.present /\ urlParams.scale.value \in ScaleTexts)
              => customizations.scale = Num(ScaleDenoted(urlParams.scale.value))

\* a URL with a color, an empty material and no other key has been resolved
C21_Witness ==
    /\ lastOp.op = "initialize"
    /\ urlParams = [NoParams EXCEPT !.color = Given("#00FF00"), !.material = Given("")]
    /\ customizations = [color |-> "#00FF00", scale |-> Num(10),
                         pattern |-> "solid", material |-> "default"]

\* C22: a scale parameter that is present and not parseable as a number ('abc')
\* resolves to scale 1.0, so that the resolved scale is a number in every case.
C22_UnparseableScaleFallsBack ==
    Initialized =>
        /\ ~customizations.scale.nan
        /\ urlParams.scale = GivenChars(<<"a", "b", "c">>) => customizations.scale = Num(10)

\* C23: once initialize() has resumed, webXRSupported is false when navigator.xr
\* is absent and when the query rejects, and the answer of the query otherwise;
\* initialize() resumes and sets the device flags for every probe result.
C23_ProbeNeverPropagates ==
    Initialized =>
        /\ webXRSupported = (xr = "supported")
        /\ isMobile = (userAgent # "desktop")
        /\ isIOS = (userAgent = "iphone")

\* initialize() has resumed on a phone whose query rejected
C23_Witness ==
    /\ lastOp.op = "initialize"
    /\ xr = "rejects"
    /\ userAgent = "iphone"
    /\ ~webXRSupported
    /\ isMobile
    /\ isIOS

\* C24: while the probe has not resolved, isMobile, isIOS and the Customization
\* have their detected values already, and a 'view in AR' request on a mobile
\* device opens the confirmation prompt.
C24_FlagsIndependentOfProbe ==
    /\ isMobile = (userAgent # "desktop")
    /\ isIOS = (userAgent = "iphone")
    /\ customizations.color = KeyOr(urlParams.color, "#FFFFFF")
    /\ (lastOp.op = "handleViewInARClick" /\ userAgent # "desktop") => showConfirmation

\* C26: whenever Dimensions are present they are the ones the model measures
\* under the active Customization, whatever the order of the model-load event
\* and the completion of initialize().
C26_DimensionsUseActiveScale ==
    dimensions # Null => dimensions[1] = measuredDimensions(customizations, modelSize)

----------------------------------------------------------------------------
(* Dimensions and verdict over the grid of model sizes and scales (SpecFit)  *)

\* C25: in every state where Dimensions are present, a FitCheckResult is present
\* and it is the verdict of these Dimensions.
C25_NoStaleVerdict ==
    dimensions # Null
        => /\ fitCheckResult # Null
           /\ fitCheckResult[1] = fitCheck(dimensions[1])

\* the unscaled extent (cm) under a scale (tenths), applied once, in 0.1 mm
ScaledOnce(extentCm, scale) == IF scale.nan THEN NaN ELSE Num(extentCm * 10 * scale.v)

\* C27: the Dimensions produced on model load are, on each axis, the unscaled
\* extent of the model multiplied by Customization.scale once.
C27_ScaleAppliedOnce ==
    dimensions # Null
        => /\ dimensions[1].width = ScaledOnce(modelSize.x, customizations.scale)
           /\ dimensions[1].height = ScaledOnce(modelSize.y, customizations.scale)
           /\ dimensions[1].depth = ScaledOnce(modelSize.z, customizations.scale)

\* a number that is not negative
NonNegative(x) == ~x.nan /\ x.v >= 0

\* C28: whenever Dimensions are present, width, height and depth are not negative.
C28_DimensionsNonNegative ==
    dimensions # Null
        => /\ NonNegative(dimensions[1].width)
           /\ NonNegative(dimensions[1].height)
           /\ NonNegative(dimensions[1].depth)

\* C29: Dimensions are null until the viewer has reported model load, and a
\* FitCheckResult is present only with Dimensions.
C29_DimensionsOnlyAfterLoad ==
    /\ dimensions # Null => isModelLoaded
    /\ fitCheckResult # Null => dimensions # Null

\* the model load has produced Dimensions and the verdict is not there yet
C29_Witness ==
    /\ lastOp = Op("handleModelLoad", "ok")
    /\ isModelLoaded
    /\ dimensions # Null
    /\ fitCheckResult = Null

\* C30: a handler that has logged a failure (of applying the customization or
\* measuring the model, or of a capture) has also given the user a message: an
\* alert or the capture status 'Capture failed'.
C30_FailuresAreVisible ==
    (\/ IndexOf(out, "console.error:Error applying customizations") > 0
     \/ IndexOf(out, "console.error:Capture failed") > 0)
        => \/ captureStatus = "Capture failed"
           \/ \E i \in 1..Len(out) :
                 out[i] \in {"alert:Model viewer not ready",
                             "alert:AR not available on this device",
                             "alert:AR session failed. Please try again."}

----------------------------------------------------------------------------
(* The request for AR, the prompt and the status values                       *)

\* C31: on a session flagged mobile a 'view in AR' request only opens the
\* confirmation prompt: it leaves the AR status as it was and calls nothing, and
\* activateAR is called by no handler but an accepted confirmation.
C31_MobileRequestOnlyOpensPrompt ==
    /\ (lastOp.op = "handleViewInARClick" /\ isMobile)
          => /\ showConfirmation
             /\ arStatus = prev.arStatus
             /\ out = << >>
    /\ Count(out, "activateAR") > 0 => lastOp = Op("handleConfirmation", "allow:canActivateAR")

\* the request has been made on a mobile session with the prompt closed, in a
\* status other than idle
C31_Witness ==
    /\ lastOp.op = "handleViewInARClick"
    /\ isMobile
    /\ ~prev.showConfirmation
    /\ showConfirmation
    /\ prev.arStatus = "placed"
    /\ arStatus = "placed"

\* the render: the Fit Check Result banner is in the page
fitBannerDisplayed(result) == result # Null
\* the render: the Measurements Toggle button is in the page
measurementsToggleDisplayed(dims) == dims # Null

\* C37: in part_000 Dimensions and FitCheckResult are absent in every reachable
\* state, so that neither the verdict banner nor the measurements toggle nor the
\* dimensions card is ever displayed, also after model load and session-started.
C37_Part000HasNoDimensions ==
    impl = "part_000"
        => /\ dimensions = Null
           /\ fitCheckResult = Null
           /\ ~fitBannerDisplayed(fitCheckResult)
           /\ ~measurementsToggleDisplayed(dimensions)
           /\ ~measurementsDisplayed(dimensions, showMeasurements)

\* part_000 has loaded its model and session-started has switched the overlay
\* flag on
C37_Witness ==
    /\ impl = "part_000"
    /\ isModelLoaded
    /\ lastOp = Op("handleARStatus", "session-started")
    /\ showMeasurements
    /\ dimensions = Null

\* C39: the confirmation prompt is open only on a session flagged mobile, and the
\* AR status is detecting only on a session flagged mobile whose viewer handle is
\* set.
C39_PromptAndDetectingNeedMobile ==
    /\ showConfirmation => isMobile
    /\ arStatus = "detecting" => isMobile /\ modelViewerRef

\* detecting has been entered by an accepted confirmation, and the prompt has
\* been opened anew
C39_Witness ==
    /\ arStatus = "detecting"
    /\ showConfirmation
    /\ isMobile
    /\ modelViewerRef
    /\ lastOp.op = "handleViewInARClick"

\* the values the handlers give the AR status
ArStatusValues == {"idle", "detecting", "placed", "session-started", "failed"}

\* C38: the AR status is idle as the component mounts and is one of idle,
\* detecting, placed, session-started and failed in every reachable state: it is
\* never ready.
C38_ReadyUnreachable ==
    /\ arStatus \in ArStatusValues
    /\ arStatus # "ready"
    /\ lastOp.op = "mount" => arStatus = "idle"

\* object-placed has arrived on a mobile session whose model is loaded
C38_Witness ==
    /\ lastOp = Op("handleARStatus", "object-placed")
    /\ arStatus = "placed"
    /\ isMobile
    /\ modelViewerRef

\* C40: the capture control is enabled only while the viewer handle is set,
\* neither is reset once set, and a capture that takes the 'viewer not ready'
\* branch was made with the capture control not enabled.
C40_CaptureEnabledNeedsViewer ==
    /\ [](captureEnabled => modelViewerRef)
    /\ [][(captureEnabled => captureEnabled') /\ (modelViewerRef => modelViewerRef')]_vars
    /\ [](lastOp = Op("captureARImage", "notReady") => ~captureEnabled)

\* a capture has been exported with the control enabled, after a second model
\* load
C40_Witness ==
    /\ captureEnabled
    /\ modelViewerRef
    /\ lastOp.op = "handleModelLoad"
    /\ captureStatus = "Image saved!"

\* C35 as stated: every capture whose frame export has resolved triggers exactly
\* one download.
C35_EveryExportedCaptureDownloads ==
    (lastOp.op = "captureResume" /\ lastOp.arg \in {"ok", "createThrows", "downloadThrows"})
        => Count(out, "link.click") = 1

\* C35: capture requests are not deduplicated.  A request made with the viewer
\* handle set starts a frame export of its own, also while an earlier one is
\* pending; a capture whose export and download steps all complete triggers
\* exactly one download, one whose export is rejected or whose download step
\* throws triggers none; and the downloads never outnumber the requests.
C35_CapturesNotDeduplicated ==
    /\ [][lastOp' = Op("captureARImage", "export")
            => /\ Cardinality(exporting') = Cardinality(exporting) + 1
               /\ nextCapture' = nextCapture + 1]_vars
    /\ [](lastOp = Op("captureResume", "ok") => Count(out, "link.click") = 1)
    /\ []((lastOp.op = "captureResume" /\ lastOp.arg # "ok") => Count(out, "link.click") = 0)
    /\ [][downloads' - downloads = Count(out', "link.click") \/ downloads' = downloads]_vars
    /\ [](downloads <= nextCapture - 1)

\* the second of two overlapping captures has triggered its download while the
\* first is still exporting
C35_Witness ==
    /\ lastOp = Op("captureResume", "ok")
    /\ Count(out, "link.click") = 1
    /\ downloads = 1
    /\ nextCapture = 3
    /\ \E c \in exporting : c.id = 1

----------------------------------------------------------------------------
(* The verdict follows the Dimensions.  React runs a pending effect, and the  *)
(* continuation of initialize() runs once its promise has resolved; the model *)
(* may be loaded before the URL parameters are resolved and again after.      *)

InitFitLive ==
    InitWith({"welcome"}, {"android"}, BOOLEAN, {"absent"}, UrlParamSets, ModelSizes,
             BOOLEAN, {Settling})

SpecFitLive ==
    /\ InitFitLive
    /\ [][NextFit]_vars
    /\ WF_vars(InitializeResolve /\ UNCHANGED obsVars)
    /\ WF_vars(FitCheckEffect /\ UNCHANGED obsVars)

\* C32: whenever no fit check effect is pending and Dimensions are present, the
\* FitCheckResult held is the verdict of these Dimensions; and every update of
\* the Dimensions, which leaves the effect pending, is eventually followed by
\* the effect's recomputation.
C32_VerdictFollowsDimensions ==
    /\ []((~fitEffectPending /\ dimensions # Null)
            => fitCheckResult = Some(fitCheck(dimensions[1])))
    /\ fitEffectPending ~> (~fitEffectPending /\ lastOp.op = "fitCheckEffect")

\* the effect has run on Dimensions measured under a scale from the URL, which
\* differ from those a load before the resolution of the URL produces
C32_Witness ==
    /\ lastOp.op = "fitCheckEffect"
    /\ ~fitEffectPending
    /\ customizations.scale = Num(20)
    /\ dimensions # Null
    /\ dimensions[1] # measuredDimensions(DefaultCustomization, modelSize)
    /\ fitCheckResult = Some(fitCheck(dimensions[1]))
    /\ fitCheckResult[1] = TightFit

----------------------------------------------------------------------------
(* The iOS model URL, over both variants, the user agents and the URL         *)
(* parameter sets of SpecResolve                                              *)

\* the parameter sets of SpecResolve, and a color with a fractional, a negative
\* and an unparseable scale
UsdzParams ==
    ResolveParams \cup
    {[NoParams EXCEPT !.color = Given("#00FF00"), !.scale = GivenChars(<<"0", ".", "5">>)],
     [NoParams EXCEPT !.color = Given("#FF0000"), !.scale = GivenChars(<<"-", "1">>)],
     [NoParams EXCEPT !.color = Given("#FF0000"), !.scale = GivenChars(<<"a", "b", "c">>)]}

InitUsdz ==
    InitWith(Impls, UserAgents, {TRUE}, {"absent"}, UsdzParams,
             {[x |-> 100, y |-> 50, z |-> 75]}, BOOLEAN, {Settling})

NextUsdz ==
    \/ InitializeResolve /\ UNCHANGED obsVars
    \/ UsdzEffect /\ UNCHANGED obsVars
    \/ HandleModelLoad /\ UNCHANGED obsVars
    \/ HandleViewInARClick /\ UNCHANGED obsVars

SpecUsdz == InitUsdz /\ [][NextUsdz]_vars

\* the color as it stands in the query of a URL
ColorHint(color) ==
    CASE color = "#FF0000" -> "%23FF0000"
      [] color = "#00FF00" -> "%2300FF00"
      [] OTHER -> color
\* the scale as it stands in the query of a URL: the text of the number
ScaleHint(scale) ==
    CASE scale = NaN -> <<"N", "a", "N">>
      [] scale = Num(20) -> <<"2">>
      [] scale = Num(10) -> <<"1">>
      [] scale = Num(5) -> <<"0", ".", "5">>
      [] scale = Num(-10) -> <<"-", "1">>

\* C33: once the USDZ effect has run on the current isIOS flag and Customization,
\* the iOS model URL is the variant's base USDZ URL, with the color and the scale
\* as query hints exactly when the device is flagged iOS and the color is not
\* '#FFFFFF'; otherwise it carries no query.  On a device that is not iOS, and
\* with a URL that resolves to the color '#FFFFFF', it is the base URL from the
\* effect's first run on, also while the effect is pending again.
C33_IosUrlHintsOnlyOnIosWithColor ==
    /\ (customUSDZUrl # NoUrl
          /\ (~isIOSDevice(userAgent) \/ KeyOr(urlParams.color, "#FFFFFF") = "#FFFFFF"))
          => customUSDZUrl = Url(baseUsdzUrl(impl), Null)
    /\ (~usdzEffectPending)
        => /\ customUSDZUrl.path = baseUsdzUrl(impl)
           /\ customUSDZUrl.path = IF impl = "welcome"
                                   THEN "https://modelviewer.dev/shared-assets/models/Astronaut.usdz"
                                   ELSE "/public/sofa_v4.usdz"
           /\ IF isIOS /\ customizations.color # "#FFFFFF"
              THEN customUSDZUrl.query =
                      Some([color |-> ColorHint(customizations.color),
                            scale |-> ScaleHint(customizations.scale)])
              ELSE customUSDZUrl.query = Null

\* on an iPhone, the effect has run on a Customization with color '#FF0000' and
\* scale 2
C33_Witness ==
    /\ ~usdzEffectPending
    /\ lastOp.op = "usdzEffect"
    /\ isIOS
    /\ customizations.color = "#FF0000"
    /\ customUSDZUrl =
          Url("https://modelviewer.dev/shared-assets/models/Astronaut.usdz",
              Some([color |-> "%23FF0000", scale |-> <<"2">>]))

----------------------------------------------------------------------------
(* Two runs on the same inputs.  The first run is recorded handler by handler *)
(* with the state each leaves; the page is then loaded anew in an environment *)
(* that differs in one respect, and the second run is given the same          *)
(* handlers with the same arguments in the same order.                        *)

VibrateCalls == {"vibrate:50", "vibrate:50,100,50", "vibrate:200", "vibrate:50,50,50"}
IsNotice(call) == call \notin VibrateCalls
\* the alerts, console lines and viewer calls of the last handler
Notices == SelectSeq(out, IsNotice)

\* what the observer keeps of the state a handler leaves
TwinView ==
    [arStatus |-> arStatus, showConfirmation |-> showConfirmation,
     showMeasurements |-> showMeasurements, captureEnabled |-> captureEnabled,
     captureStatus |-> captureStatus, fitCheckResult |-> fitCheckResult,
     dimensions |-> dimensions, notices |-> Notices]
\* the handler, its argument and, for a resumed capture, which capture it is
TwinEntry ==
    [op |-> lastOp,
     capture |-> IF lastOp.op = "captureResume" THEN captureStatusBy ELSE 0,
     view |-> TwinView]

\* the entry is the input the first run was given at this position; between the
\* two variants the outcome of applyCustomizations is no input of part_000
SameInput(entry, recorded, kind) ==
    /\ entry.capture = recorded.capture
    /\ IF kind = "impl" /\ recorded.op.op = "handleModelLoad"
       THEN entry.op.op = "handleModelLoad"
       ELSE entry.op = recorded.op

\* the handler is recorded, or followed, at the next position below the limit
TwinRecord(limit) ==
    /\ Len(history) < limit
    /\ memo # Null =>
          /\ Len(history) < Len(memo[1].trace)
          /\ SameInput(TwinEntry', memo[1].trace[Len(history) + 1], memo[1].kind)
    /\ history' = Append(history, TwinEntry')
    /\ UNCHANGED <<prev, seqPos, memo>>

\* MaxTrace bounds the handlers of a run; the timer callbacks its captures have
\* left pending may still run after them
TwinObserve == TwinRecord(MaxTrace)
TwinObserveTimer == TwinRecord(MaxTrace + MaxCaptures)

\* the page is loaded anew: every useState and useRef starts over
Remount ==
    /\ isMobile' = FALSE
    /\ isIOS' = FALSE
    /\ webXRSupported' = FALSE
    /\ showConfirmation' = FALSE
    /\ customizations' = DefaultCustomization
    /\ arStatus' = "idle"
    /\ captureEnabled' = FALSE
    /\ showMeasurements' = FALSE
    /\ dimensions' = Null
    /\ fitCheckResult' = Null
    /\ isModelLoaded' = FALSE
    /\ captureStatus' = ""
    /\ nextCapture' = 1
    /\ exporting' = {}
    /\ timers' = << >>
    /\ objectUrls' = {}
    /\ captureStatusBy' = 0
    /\ downloads' = 0
    /\ customUSDZUrl' = NoUrl
    /\ usdzEffectPending' = TRUE
    /\ modelViewerRef' = FALSE
    /\ initPending' = TRUE
    /\ fitEffectPending' = FALSE
    /\ lastOp' = Op("mount", "")
    /\ out' = << >>

\* the first run ends; the second starts in the same environment but for the
\* haptics API (kind "haptics") or for the variant (kind "impl")
TwinReload(kind) ==
    /\ memo = Null
    /\ Len(history) >= MaxTrace
    /\ memo' = Some([kind |-> kind, trace |-> history])
    /\ history' = << >>
    /\ hasVibrate' = IF kind = "haptics" THEN FALSE ELSE hasVibrate
    /\ impl' = IF kind = "impl" THEN "part_000" ELSE impl
    /\ scriptLoaded' = TRUE
    /\ Remount
    /\ UNCHANGED <<userAgent, xr, urlParams, modelSize, toBlobFates, prev, seqPos>>

InitTwinHaptics ==
    InitWith(Impls, {"android"}, {TRUE}, {"absent"}, {NoParams},
             {[x |-> 100, y |-> 50, z |-> 75]}, {TRUE}, {Settling})

NextTwinHaptics ==
    \/ InitializeResolve /\ TwinObserve
    \/ HandleModelLoad /\ TwinObserve
    \/ FitCheckEffect /\ TwinObserve
    \/ HandleARStatus /\ TwinObserve
    \/ HandleViewInARClick /\ TwinObserve
    \/ HandleConfirmation /\ TwinObserve
    \/ ToggleMeasurements /\ TwinObserve
    \/ CaptureARImage /\ TwinObserve
    \/ CaptureResume /\ TwinObserve
    \/ CaptureTimer /\ TwinObserveTimer
    \/ TwinReload("haptics")

SpecTwinHaptics == InitTwinHaptics /\ [][NextTwinHaptics]_vars

\* the second run has followed the first up to position i
Followed(i) == memo # Null /\ i <= Len(history)

\* C34: a run without the haptics API, given the handlers and arguments of a run
\* with it, can take every one of them, and after each it holds the same AR
\* status, overlay flag, fit verdict and capture status and has raised the same
\* alerts and console lines: the runs differ by the vibrate calls only.
C34_HapticsAbsenceChangesNothing ==
    /\ \A i \in DOMAIN history :
          Followed(i) =>
              LET with == memo[1].trace[i].view
                  without == history[i].view
              IN  /\ without.arStatus = with.arStatus
                  /\ without.showMeasurements = with.showMeasurements
                  /\ without.fitCheckResult = with.fitCheckResult
                  /\ without.captureStatus = with.captureStatus
                  /\ without.notices = with.notices
    /\ (memo # Null /\ memo[1].kind = "haptics" /\ Len(history) < Len(memo[1].trace))
          => ENABLED NextTwinHaptics
    /\ (memo # Null /\ memo[1].kind = "haptics") => \A i \in DOMAIN out : IsNotice(out[i])

\* the run without haptics has followed a run in which the model was loaded,
\* the fit check effect vibrated and session-started vibrated
C34_Witness ==
    /\ memo # Null
    /\ memo[1].kind = "haptics"
    /\ ~hasVibrate
    /\ Len(history) = MaxTrace
    /\ lastOp = Op("handleARStatus", "session-started")
    /\ out = << >>
    /\ fitCheckResult # Null
    /\ history[MaxTrace].view = memo[1].trace[MaxTrace].view

\* The two variants on the same inputs.  The fit check effect is no input: it
\* runs by itself in welcome.tsx and is not recorded.
InitTwinImpl ==
    InitWith({"welcome"}, {"android"}, {TRUE}, {"absent"},
             {[NoParams EXCEPT !.color = Given("#FF0000"), !.scale = GivenChars(<<"2">>)]},
             {[x |-> 100, y |-> 50, z |-> 75]}, {TRUE}, {Settling})

NextTwinImpl ==
    \/ InitializeResolve /\ TwinObserve
    \/ HandleModelLoad /\ TwinObserve
    \/ FitCheckEffect /\ UNCHANGED obsVars
    \/ HandleARStatus /\ TwinObserve
    \/ HandleViewInARClick /\ TwinObserve
    \/ HandleConfirmation /\ TwinObserve
    \/ ToggleMeasurements /\ TwinObserve
    \/ CaptureARImage /\ TwinObserve
    \/ CaptureResume /\ TwinObserve
    \/ CaptureTimer /\ TwinObserveTimer
    \/ TwinReload("impl")

SpecTwinImpl == InitTwinImpl /\ [][NextTwinImpl]_vars

====
